---- MODULE Spec2Model ----
(***************************************************************************)
(* Model of command-t's matcher.c: CommandTMatcher_initialize and          *)
(* CommandTMatcher_sorted_matches_for (the HAVE_PTHREAD_H build), with the *)
(* worker function match_thread and the comparators cmp_alpha/cmp_score.   *)
(*                                                                         *)
(* Strings are sequences of byte codes (46 '.', 47 '/', 32 ' ', 66 'B',   *)
(* 97 'a', 98 'b').  Ruby VALUEs are tagged tuples.  Scores are integers   *)
(* on a fixed scale (0 = no match).                                        *)
(***************************************************************************)
EXTENDS Integers, Sequences, FiniteSets, TLC

(* ------------------------------ bounds -------------------------------- *)
MaxPaths == 3      \* longest candidate sequence the path source returns
MaxThreads == 3    \* largest value of the threads option
MaxLimit == 2      \* largest value of the limit option

(* THREAD_THRESHOLD of matcher.c:172.  The source sets 1000; the model     *)
(* scales it so that candidate sequences on both sides of the threshold    *)
(* lie within MaxPaths.                                                    *)
THREAD_THRESHOLD == 2

(* ------------------------------ values -------------------------------- *)
Qnil == <<"nil">>
Qtrue == <<"true">>
Qfalse == <<"false">>
Str(s) == <<"str", s>>
Num(n) == <<"int", n>>
NIL_P(v) == v = Qnil
NUM2LONG(v) == v[2]
RSTRING(v) == v[2]

\* candidate strings: "b", "ba", "ab", ".b" (NUL-free, as paths are)
PathPool == { <<98>>, <<98, 97>>, <<97, 98>>, <<46, 98>> }

\* the sequences the path source may return: distinct candidates, in any order
PathSeqs ==
  { s \in UNION { [1..n -> PathPool] : n \in 0..MaxPaths } :
      \A x, y \in 1..Len(s) : x # y => s[x] # s[y] }

\* abbreviations a caller passes: nil, "", ".", "b", "B", " "
AbbrevInputs ==
  { Qnil, Str(<<>>), Str(<<46>>), Str(<<98>>), Str(<<66>>), Str(<<32>>) }

BoolOptions == { Qnil, Qtrue, Qfalse }
ThreadsOptions == { Qnil } \cup { Num(n) : n \in -1..MaxThreads }
LimitOptions == { Qnil } \cup { Num(n) : n \in 0..MaxLimit }

(* --------------------------- string helpers --------------------------- *)
\* String#downcase on ASCII bytes
downcase(s) == [k \in 1..Len(s) |-> IF s[k] >= 65 /\ s[k] <= 90 THEN s[k] + 32 ELSE s[k]]

\* String#delete(" ")
IsNotSpace(c) == c # 32
delete_spaces(s) == SelectSeq(s, IsNotSpace)

\* strncmp(a, b, n): compares at most n bytes and stops after a NUL byte
RECURSIVE strncmp_from(_, _, _, _)
strncmp_from(a, b, n, k) ==
  IF k > n THEN 0
  ELSE IF a[k] # b[k] THEN a[k] - b[k]
  ELSE IF a[k] = 0 THEN 0
  ELSE strncmp_from(a, b, n, k + 1)

strncmp(a, b, n) == strncmp_from(a, b, n, 1)

(* ----------------------------- comparators ---------------------------- *)
cmp_alpha_longer_first(a, b) ==
  LET a_len == Len(a.path)
      b_len == Len(b.path)
  IN  IF a_len > b_len
        THEN LET order == strncmp(a.path, b.path, b_len)
             IN  IF order = 0 THEN -1 ELSE order
      ELSE IF a_len < b_len
        THEN LET order == strncmp(a.path, b.path, a_len)
             IN  IF order = 0 THEN 1 ELSE order
      ELSE strncmp(a.path, b.path, a_len)

cmp_alpha(a, b) ==
  LET a_len == Len(a.path)
      b_len == Len(b.path)
  IN  IF a_len > b_len
        THEN LET order == strncmp(a.path, b.path, b_len)
             IN  IF order = 0 THEN 1 ELSE order
      ELSE IF a_len < b_len
        THEN LET order == strncmp(a.path, b.path, a_len)
             IN  IF order = 0 THEN -1 ELSE order
      ELSE strncmp(a.path, b.path, a_len)

cmp_score_no_tie_break(a, b) ==
  IF a.score > b.score THEN -1
  ELSE IF a.score < b.score THEN 1
  ELSE 0

cmp_score(a, b) ==
  IF a.score > b.score THEN -1
  ELSE IF a.score < b.score THEN 1
  ELSE cmp_alpha(a, b)

(* ------------------------------- scorer ------------------------------- *)
\* the pattern's bytes occur in the candidate, in order
RECURSIVE IsSubsequence(_, _)
IsSubsequence(needle, haystack) ==
  IF needle = <<>> THEN TRUE
  ELSE IF haystack = <<>> THEN FALSE
  ELSE IF Head(needle) = Head(haystack)
    THEN IsSubsequence(Tail(needle), Tail(haystack))
  ELSE IsSubsequence(needle, Tail(haystack))

\* the candidate's final path segment begins with '.'
DotHidden(path) ==
  \E k \in 1..Len(path) :
    /\ path[k] = 46
    /\ k = 1 \/ path[k - 1] = 47
    /\ \A m \in k..Len(path) : path[m] # 47

\* calculate_match: 0 for a candidate that does not match or is a suppressed
\* dot-file, else a positive relevance (a match at the start of the candidate
\* scores higher).  Folding the candidate's case follows case_sensitive.
calculate_match(path, abbrev, case_sensitive, always_show, never_show) ==
  LET haystack == IF case_sensitive THEN path ELSE downcase(path)
      suppressed == \/ never_show = Qtrue
                    \/ /\ always_show # Qtrue
                       /\ ~(abbrev # <<>> /\ abbrev[1] = 46)
  IN  IF ~IsSubsequence(abbrev, haystack) THEN 0
      ELSE IF DotHidden(path) /\ suppressed THEN 0
      ELSE IF abbrev # <<>> /\ haystack[1] = abbrev[1] THEN 2
      ELSE 1

(* -------------------------------- qsort ------------------------------- *)
\* what reading one malloc'ed, never written match_t can yield
GarbagePath == <<63>>
GarbageReads == { [written |-> TRUE, path |-> GarbagePath, score |-> sc] : sc \in {0, 1} }

\* the buffers a reader of buf can observe: written slots as they are,
\* unwritten slots with indeterminate contents
Readable(buf) ==
  { b \in [1..Len(buf) -> { buf[k] : k \in 1..Len(buf) } \cup GarbageReads] :
      \A k \in 1..Len(buf) :
        IF buf[k].written THEN b[k] = buf[k] ELSE b[k] \in GarbageReads }

\* the call qsort makes through its comparator pointer
Compare(cmp, a, b) ==
  IF cmp = "cmp_alpha" THEN cmp_alpha(a, b) ELSE cmp_score(a, b)

IsSorted(buf, cmp) ==
  \A k \in 1..Len(buf) - 1 : Compare(cmp, buf[k], buf[k + 1]) <= 0

\* qsort(base, n, size, cmp): any arrangement of the elements in cmp's order
QsortResults(buf, cmp) ==
  { b \in { [k \in 1..Len(buf) |-> buf[p[k]]] : p \in Permutations(1..Len(buf)) } :
      IsSorted(b, cmp) }

\* the filter pass of sorted_matches_for: forward over the buffer, pushing
\* the entries with score > 0.0 while limit > 0
PassesZero(m) == m.score >= 0

\* line 234: matches[i].score > 0.0
Passes(m) == m.score > 0

RECURSIVE CollectFromCountingSkipped(_, _, _)
CollectFromCountingSkipped(buf, k, limit) ==
  IF k > Len(buf) \/ limit <= 0 THEN <<>>
  ELSE IF Passes(buf[k])
    THEN <<buf[k].path>> \o CollectFromCountingSkipped(buf, k + 1, limit - 1)
  ELSE CollectFromCountingSkipped(buf, k + 1, limit - 1)

RECURSIVE CollectFrom(_, _, _)
CollectFrom(buf, k, limit) ==
  IF k > Len(buf) \/ limit <= 0 THEN <<>>
  ELSE IF Passes(buf[k]) THEN <<buf[k].path>> \o CollectFrom(buf, k + 1, limit - 1)
  ELSE CollectFrom(buf, k + 1, limit)

(* ------------------------------- state -------------------------------- *)
VARIABLES
  pc,                     \* position of the calling thread
  scanner,                \* @scanner
  always_show_dot_files,  \* @always_show_dot_files
  never_show_dot_files,   \* @never_show_dot_files
  recalled,               \* the object has already served a call
  abbrev_arg,             \* argv[0]: the abbreviation as the caller passed it
  ignore_spaces,          \* the ignore_spaces option
  threads_option,         \* the threads option
  abbrev,                 \* the normalised abbreviation
  case_sensitive,         \* case_sensitive == Qtrue
  paths,                  \* the array scanner.paths returned
  path_count,
  thread_count,
  matches,                \* the score buffer (slot k+1 is matches[k] of the C code)
  thread_args,            \* the filled entries of the thread_args array
  heap,                   \* the malloc'ed blocks not yet freed
  i,                      \* loop counter of the calling thread
  tstate,                 \* per thread index: none, running, inline, done, returned, joined
  tpos,                   \* per thread index: match_thread's loop counter (from args->thread_index)
  sort_option,            \* the sort option, once line 218 has used it
  limit_option,           \* the limit option, once line 230 has used it
  results,
  error,                  \* the exception raised, or "none"
  scored                  \* per slot: how many times calculate_match ran for it

vars == << pc, scanner, always_show_dot_files, never_show_dot_files, recalled,
           abbrev_arg, ignore_spaces, threads_option, abbrev,
           case_sensitive, paths, path_count, thread_count, matches, thread_args,
           heap, i, tstate, tpos, sort_option, limit_option, results, error, scored >>

ivars == << scanner, always_show_dot_files, never_show_dot_files, recalled >>
query == << abbrev_arg, ignore_spaces, threads_option, abbrev, case_sensitive, paths,
           path_count, thread_count >>
workers == << tstate, tpos >>
ranking == << sort_option, limit_option, results >>

Threads == 0..(MaxThreads - 1)
Unwritten == [written |-> FALSE, path |-> <<>>, score |-> 0]
\* the values given for the flags the code only tests against Qtrue
FlagOptions == { Qnil, Qtrue }

Init ==
  /\ pc = "new"
  /\ scanner = Qnil
  /\ always_show_dot_files = Qnil
  /\ never_show_dot_files = Qnil
  /\ recalled = FALSE
  /\ abbrev_arg = Qnil
  /\ ignore_spaces = Qnil
  /\ threads_option = Qnil
  /\ abbrev = <<>>
  /\ case_sensitive = FALSE
  /\ paths = <<>>
  /\ path_count = 0
  /\ thread_count = 0
  /\ matches = <<>>
  /\ thread_args = <<>>
  /\ heap = {}
  /\ i = 0
  /\ tstate = [k \in Threads |-> "none"]
  /\ tpos = [k \in Threads |-> 0]
  /\ sort_option = Qnil
  /\ limit_option = Qnil
  /\ results = <<>>
  /\ error = "none"
  /\ scored = <<>>

\* rb_raise: the exception leaves the function at once: nothing is freed, and
\* the frame's loop counter is gone
Raise(e) ==
  /\ pc' = "raised"
  /\ error' = e
  /\ i' = 0

(* --------------------------- initialize ------------------------------- *)
InitializeNilScanner ==
  /\ pc = "new"
  /\ Raise("ArgError")
  /\ UNCHANGED << ivars, query, matches, thread_args, heap, workers, scored, ranking >>

Initialize ==
  /\ pc = "new"
  /\ \E ps \in PathSeqs, always \in FlagOptions, never \in FlagOptions :
       /\ scanner' = <<"scanner", ps>>
       /\ always_show_dot_files' = always
       /\ never_show_dot_files' = never
  /\ pc' = "idle"
  /\ UNCHANGED << recalled, query, matches, thread_args, heap, i, workers, ranking, error,
                  scored >>

(* ------------------ sorted_matches_for: lines 137-174 ----------------- *)
(* The sort and limit options are inputs of the call that nothing reads     *)
(* between the entry and lines 218 and 230: each is drawn where it is used. *)
CallNilAbbrevAfterFetch ==
  /\ pc = "idle"
  /\ \E ab \in AbbrevInputs : NIL_P(ab)
  /\ paths' = scanner[2]
  /\ path_count' = Len(scanner[2])
  /\ matches' = [k \in 1..path_count' |-> Unwritten]
  /\ heap' = heap \cup {"matches"}
  /\ Raise("ArgError")
  /\ UNCHANGED << ivars, abbrev_arg, ignore_spaces, threads_option, abbrev, case_sensitive,
                  thread_count, thread_args, workers, scored, ranking >>

\* line 137: a nil abbreviation is refused before anything else is done
CallNilAbbrev ==
  /\ pc = "idle"
  /\ \E ab \in AbbrevInputs : NIL_P(ab)
  /\ Raise("ArgError")
  /\ UNCHANGED << ivars, query, matches, thread_args, heap, workers, scored, ranking >>

\* malloc of the score buffer fails
CallNoMem ==
  /\ pc = "idle"
  /\ Raise("NoMemError")
  /\ UNCHANGED << ivars, query, matches, thread_args, heap, workers, scored, ranking >>

NormalizeKeepsSpaces(raw, cs, spaces) ==
  IF cs # Qtrue THEN downcase(raw) ELSE raw

\* lines 151-156
Normalize(raw, cs, spaces) ==
  LET folded == IF cs # Qtrue THEN downcase(raw) ELSE raw
  IN  IF spaces = Qtrue THEN delete_spaces(folded) ELSE folded

EffectiveThreadsIgnoringThreshold(threads, n) ==
  IF NIL_P(threads) THEN 1 ELSE NUM2LONG(threads)

\* lines 169-174
EffectiveThreads(threads, n) ==
  IF n < THREAD_THRESHOLD THEN 1
  ELSE IF NIL_P(threads) THEN 1 ELSE NUM2LONG(threads)

Call ==
  /\ pc = "idle"
  /\ \E ab \in AbbrevInputs \ {Qnil}, cs \in FlagOptions, spaces \in FlagOptions,
        threads \in ThreadsOptions :
       /\ abbrev_arg' = ab
       /\ ignore_spaces' = spaces
       /\ threads_option' = threads
       /\ abbrev' = Normalize(RSTRING(ab), cs, spaces)
       /\ case_sensitive' = (cs = Qtrue)
       /\ paths' = scanner[2]
       /\ path_count' = Len(scanner[2])
       /\ thread_count' = EffectiveThreads(threads, Len(scanner[2]))
  /\ matches' = [k \in 1..path_count' |-> Unwritten]
  /\ scored' = [k \in 1..path_count' |-> 0]
  /\ heap' = heap \cup {"matches"}
  /\ pc' = "alloc_threads"
  /\ UNCHANGED << ivars, thread_args, i, workers, ranking, error >>

(* ------------------------- lines 175-182 ------------------------------ *)
\* malloc(size * count) succeeds only for a count >= 0; it may always fail
AllocThreads ==
  /\ pc = "alloc_threads"
  /\ thread_count >= 0
  /\ heap' = heap \cup {"threads"}
  /\ pc' = "alloc_args"
  /\ UNCHANGED << ivars, query, matches, thread_args, i, workers, ranking, error, scored >>

AllocThreadsNoMem ==
  /\ pc = "alloc_threads"
  /\ Raise("NoMemError")
  /\ UNCHANGED << ivars, query, matches, thread_args, heap, workers, scored, ranking >>

AllocArgs ==
  /\ pc = "alloc_args"
  /\ thread_count >= 0
  /\ heap' = heap \cup {"thread_args"}
  /\ thread_args' = <<>>
  /\ i' = 0
  /\ pc' = "spawn"
  /\ UNCHANGED << ivars, query, matches, workers, ranking, error, scored >>

AllocArgsNoMem ==
  /\ pc = "alloc_args"
  /\ Raise("NoMemError")
  /\ UNCHANGED << ivars, query, matches, thread_args, heap, workers, scored, ranking >>

(* ------------------ the spawn loop: lines 183-207 --------------------- *)
ArgsForIndexZero(idx) ==
  [ thread_count |-> thread_count,
    thread_index |-> 0,
    case_sensitive |-> case_sensitive,
    path_count |-> path_count,
    abbrev |-> abbrev,
    always_show_dot_files |-> always_show_dot_files,
    never_show_dot_files |-> never_show_dot_files ]

\* thread_args[i] as lines 184-193 fill it
ArgsFor(idx) ==
  [ thread_count |-> thread_count,
    thread_index |-> idx,
    case_sensitive |-> case_sensitive,
    path_count |-> path_count,
    abbrev |-> abbrev,
    always_show_dot_files |-> always_show_dot_files,
    never_show_dot_files |-> never_show_dot_files ]

IsLastWorkerFirst(idx, count) == idx = 0

\* line 196: i == thread_count - 1
IsLastWorker(idx, count) == idx = count - 1

SpawnCreate ==
  /\ pc = "spawn"
  /\ i < thread_count
  /\ ~IsLastWorker(i, thread_count)
  /\ thread_args' = Append(thread_args, ArgsFor(i))
  /\ tstate' = [tstate EXCEPT ![i] = "running"]
  /\ tpos' = [tpos EXCEPT ![i] = thread_args'[i + 1].thread_index]
  /\ i' = i + 1
  /\ UNCHANGED << pc, ivars, query, matches, heap, ranking, error, scored >>

SpawnCreateFail ==
  /\ pc = "spawn"
  /\ i < thread_count
  /\ ~IsLastWorker(i, thread_count)
  /\ thread_args' = Append(thread_args, ArgsFor(i))
  /\ Raise("SystemCallError")
  /\ UNCHANGED << ivars, query, matches, heap, workers, scored, ranking >>

SpawnInline ==
  /\ pc = "spawn"
  /\ i < thread_count
  /\ IsLastWorker(i, thread_count)
  /\ thread_args' = Append(thread_args, ArgsFor(i))
  /\ tstate' = [tstate EXCEPT ![i] = "inline"]
  /\ tpos' = [tpos EXCEPT ![i] = thread_args'[i + 1].thread_index]
  /\ pc' = "inline"
  /\ UNCHANGED << ivars, query, matches, heap, i, ranking, error, scored >>

SpawnDone ==
  /\ pc = "spawn"
  /\ i >= thread_count
  /\ i' = 0
  /\ pc' = "join"
  /\ UNCHANGED << ivars, query, matches, thread_args, heap, workers, ranking, error, scored >>

(* ----------------------- match_thread: 96-112 ------------------------- *)
NextIndexSkips(pos, args) == pos + args.thread_count + 1

NextIndexByOne(pos, args) == pos + 1

\* line 100: i += args->thread_count
NextIndex(pos, args) == pos + args.thread_count

\* one iteration of the loop of the thread running thread_args[k]
MatchStep(k) ==
  /\ tstate[k] \in {"running", "inline"}
  /\ LET args == thread_args[k + 1]
     IN  /\ tpos[k] < args.path_count
         /\ matches' = [matches EXCEPT ![tpos[k] + 1] =
              [ written |-> TRUE,
                path |-> paths[tpos[k] + 1],
                score |-> calculate_match(paths[tpos[k] + 1], args.abbrev,
                                          args.case_sensitive,
                                          args.always_show_dot_files,
                                          args.never_show_dot_files) ]]
         /\ scored' = [scored EXCEPT ![tpos[k] + 1] = @ + 1]
         /\ tpos' = [tpos EXCEPT ![k] = NextIndex(@, args)]
  /\ UNCHANGED << pc, ivars, query, thread_args, heap, i, tstate, ranking, error >>

\* the loop condition fails and a spawned thread returns NULL
MatchReturn(k) ==
  /\ tstate[k] = "running"
  /\ tpos[k] >= thread_args[k + 1].path_count
  /\ tstate' = [tstate EXCEPT ![k] = "done"]
  /\ UNCHANGED << pc, ivars, query, matches, thread_args, heap, i, tpos, ranking, error, scored >>

\* the inline call of line 199 returns to the spawn loop
InlineReturn(k) ==
  /\ tstate[k] = "inline"
  /\ tpos[k] >= thread_args[k + 1].path_count
  /\ tstate' = [tstate EXCEPT ![k] = "returned"]
  /\ i' = i + 1
  /\ pc' = "spawn"
  /\ UNCHANGED << ivars, query, matches, thread_args, heap, tpos, ranking, error, scored >>

(* ------------------- the join loop: lines 209-216 --------------------- *)
JoinWithoutWaiting ==
  /\ pc = "join"
  /\ i < thread_count - 1
  /\ i' = i + 1
  /\ UNCHANGED << pc, ivars, query, matches, thread_args, heap, workers, ranking, error, scored >>

Join ==
  /\ pc = "join"
  /\ i < thread_count - 1
  /\ tstate[i] = "done"
  /\ tstate' = [tstate EXCEPT ![i] = "joined"]
  /\ i' = i + 1
  /\ UNCHANGED << pc, ivars, query, matches, thread_args, heap, tpos, ranking, error, scored >>

JoinFailContinues ==
  /\ pc = "join"
  /\ i < thread_count - 1
  /\ error' = "SystemCallError"
  /\ i' = i + 1
  /\ UNCHANGED << pc, ivars, query, matches, thread_args, heap, workers, scored, ranking >>

\* pthread_join returns an error without having waited for the thread
JoinFail ==
  /\ pc = "join"
  /\ i < thread_count - 1
  /\ Raise("SystemCallError")
  /\ UNCHANGED << ivars, query, matches, thread_args, heap, workers, scored, ranking >>

JoinDone ==
  /\ pc = "join"
  /\ i >= thread_count - 1
  /\ heap' = heap \ {"threads"}
  /\ pc' = "sort"
  /\ UNCHANGED << ivars, query, matches, thread_args, i, workers, ranking, error, scored >>

(* ------------------------ ranking: 218-241 ---------------------------- *)
SortEnabledAlways(opt) == TRUE

\* line 218
SortEnabled(opt) == NIL_P(opt) \/ opt = Qtrue

AlphaOnly(ab) == Len(ab) = 0 \/ (Len(ab) = 1 /\ ab[1] = 46)

SortReordersPaths ==
  /\ pc = "sort"
  /\ \E sort \in BoolOptions :
       /\ sort_option' = sort
       /\ IF SortEnabled(sort)
            THEN \E buf \in Readable(matches) :
                   IF AlphaOnly(abbrev)
                     THEN matches' \in QsortResults(buf, "cmp_alpha")
                     ELSE matches' \in QsortResults(buf, "cmp_score")
            ELSE matches' = matches
  /\ paths' = [k \in 1..Len(paths) |-> matches'[k].path]
  /\ pc' = "filter"
  /\ UNCHANGED << ivars, abbrev_arg, ignore_spaces, threads_option, abbrev, case_sensitive,
                  path_count, thread_count, thread_args, heap, i, workers, limit_option,
                  results, error, scored >>

\* lines 218-226
Sort ==
  /\ pc = "sort"
  /\ \E sort \in BoolOptions :
       /\ sort_option' = sort
       /\ IF SortEnabled(sort)
            THEN \E buf \in Readable(matches) :
                   IF AlphaOnly(abbrev)
                     THEN matches' \in QsortResults(buf, "cmp_alpha")
                     ELSE matches' \in QsortResults(buf, "cmp_score")
            ELSE matches' = matches
  /\ pc' = "filter"
  /\ UNCHANGED << ivars, query, thread_args, heap, i, workers, limit_option, results, error, scored >>

\* a comparator follows the path of a never written slot
SortCrash ==
  /\ pc = "sort"
  /\ Len(matches) >= 2
  /\ \E k \in 1..Len(matches) : ~matches[k].written
  /\ \E sort \in { opt \in BoolOptions : SortEnabled(opt) } : sort_option' = sort
  /\ pc' = "crashed"
  /\ UNCHANGED << ivars, query, matches, thread_args, heap, i, workers, limit_option, results, error, scored >>

Limit(opt, n) ==
  LET limit == IF NIL_P(opt) THEN 0 ELSE NUM2LONG(opt)
  IN  IF limit = 0 THEN n ELSE limit

Filter ==
  /\ pc = "filter"
  /\ \E limit \in LimitOptions, buf \in Readable(matches) :
       /\ limit_option' = limit
       /\ results' = CollectFrom(buf, 1, Limit(limit, path_count))
  /\ heap' = heap \ {"matches"}
  /\ pc' = "returned"
  /\ UNCHANGED << ivars, query, matches, thread_args, i, workers, sort_option, error, scored >>

Next ==
  \/ InitializeNilScanner
  \/ Initialize
  \/ CallNilAbbrev
  \/ CallNoMem
  \/ Call
  \/ AllocThreads
  \/ AllocThreadsNoMem
  \/ AllocArgs
  \/ AllocArgsNoMem
  \/ SpawnCreate
  \/ SpawnCreateFail
  \/ SpawnInline
  \/ SpawnDone
  \/ \E k \in Threads : MatchStep(k)
  \/ \E k \in Threads : MatchReturn(k)
  \/ \E k \in Threads : InlineReturn(k)
  \/ Join
  \/ JoinFail
  \/ JoinDone
  \/ Sort
  \/ SortCrash
  \/ Filter

Spec == Init /\ [][Next]_vars

(* ------------------------------ scheduling ---------------------------- *)
(* The calling thread keeps running its code, and the scheduler lets every  *)
(* thread that was created run. A failure of malloc, pthread_create or      *)
(* pthread_join may happen at any time but never has to.                    *)
MainProgress ==
  \/ AllocThreads \/ AllocArgs
  \/ SpawnCreate \/ SpawnInline \/ SpawnDone
  \/ Join \/ JoinDone
  \/ Sort \/ Filter

WorkerStep(k) == MatchStep(k) \/ MatchReturn(k) \/ InlineReturn(k)

FairSpec ==
  /\ Spec
  /\ WF_vars(MainProgress)
  /\ \A k \in Threads : WF_vars(WorkerStep(k))

(* ----------------------- a later call: line 114 ----------------------- *)
(* The matcher serves another call once one has returned or raised. Every   *)
(* local of sorted_matches_for is a fresh one; only the instance variables  *)
(* carry over. heap follows the blocks of the call in progress: those an     *)
(* earlier call left allocated are out of its reach. A call is entered here *)
(* once no thread of the previous one is left.                              *)
Reenter ==
  /\ pc \in {"returned", "raised"}
  /\ scanner # Qnil
  /\ ~recalled
  /\ \A k \in Threads : tstate[k] \notin {"running", "done"}
  /\ recalled' = TRUE
  /\ pc' = "idle"
  /\ abbrev_arg' = Qnil /\ ignore_spaces' = Qnil /\ threads_option' = Qnil
  /\ abbrev' = <<>> /\ case_sensitive' = FALSE
  /\ paths' = <<>> /\ path_count' = 0 /\ thread_count' = 0
  /\ matches' = <<>> /\ thread_args' = <<>> /\ heap' = {} /\ i' = 0
  /\ tstate' = [k \in Threads |-> "none"]
  /\ tpos' = [k \in Threads |-> 0]
  /\ sort_option' = Qnil /\ limit_option' = Qnil /\ results' = <<>>
  /\ error' = "none"
  /\ scored' = <<>>
  /\ UNCHANGED << scanner, always_show_dot_files, never_show_dot_files >>

NextCalls == Next \/ Reenter

SpecCalls == Init /\ [][NextCalls]_vars

TypeOK ==
  /\ pc \in {"new", "idle", "alloc_threads", "alloc_args", "spawn", "inline", "join",
             "sort", "filter", "returned", "raised", "crashed"}
  /\ heap \subseteq {"matches", "threads", "thread_args"}
  /\ Len(matches) = path_count

(* ====================== properties of the matcher ===================== *)
Min(a, b) == IF a < b THEN a ELSE b
Take(s, n) == SubSeq(s, 1, Min(n, Len(s)))

\* the call is within the interface: a positive effective worker count
PositiveWorkers == thread_count >= 1

\* the score of candidate k of this call, straight from the scorer
ScoreOf(path) ==
  calculate_match(path, abbrev, case_sensitive, always_show_dot_files, never_show_dot_files)

\* the buffer a single pass over the candidates would produce
SeqScores ==
  [k \in 1..Len(paths) |-> [written |-> TRUE, path |-> paths[k], score |-> ScoreOf(paths[k])]]

\* every output the candidates, the query and the sort and limit options allow,
\* whatever the worker count and the schedule
Outputs ==
  LET ranked == IF ~SortEnabled(sort_option) THEN { SeqScores }
                ELSE IF AlphaOnly(abbrev) THEN QsortResults(SeqScores, "cmp_alpha")
                ELSE QsortResults(SeqScores, "cmp_score")
  IN  { CollectFrom(b, 1, Limit(limit_option, Len(paths))) : b \in ranked }

\* C1: for fixed candidates, query and options the returned sequence is the one
\* sequence determined by them: it depends neither on the (positive) worker
\* count nor on how the workers were interleaved.
C1_WorkerCountInvariance ==
  (pc = "returned" /\ PositiveWorkers) =>
    /\ results \in Outputs
    /\ Cardinality(Outputs) = 1

C1_Witness ==
  /\ pc = "returned"
  /\ thread_count = 3
  /\ path_count = 3
  /\ Len(results) >= 2
  /\ results # Take(paths, Len(results))

\* C2: with a positive worker count the scorer runs at most once per candidate
\* index at any time, and exactly once for every index 0..N-1 by the time the
\* call reaches the Ranker.
C2_ScoredExactlyOnce ==
  PositiveWorkers =>
    /\ \A k \in 1..Len(scored) : scored[k] <= 1
    /\ pc \in {"sort", "filter", "returned"} =>
         /\ Len(scored) = path_count
         /\ \A k \in 1..path_count : scored[k] = 1

C2_Witness ==
  /\ pc = "sort"
  /\ thread_count = 3
  /\ path_count = 2
  /\ \A k \in 1..path_count : scored[k] = 1

Joined ==
  \A k \in Threads :
    /\ k < thread_count - 1 => tstate[k] = "joined"
    /\ k = thread_count - 1 => tstate[k] = "returned"
    /\ k > thread_count - 1 => tstate[k] = "none"

\* C3: while the calling thread is at the qsort or at the filter pass, no worker
\* of the call is running: every spawned worker has been joined and the inline
\* stripe has returned.
C3_RankerReadsAfterJoin ==
  pc \in {"sort", "filter"} => Joined

C3_Witness ==
  /\ pc = "sort"
  /\ thread_count = 3
  /\ tstate[0] = "joined"
  /\ tstate[1] = "joined"
  /\ tstate[2] = "returned"

\* the paths of the entries of a buffer that have a positive score, in the
\* buffer's order
RECURSIVE PositivePaths(_)
PositivePaths(buf) ==
  IF buf = <<>> THEN <<>>
  ELSE IF Head(buf).score > 0 THEN <<Head(buf).path>> \o PositivePaths(Tail(buf))
  ELSE PositivePaths(Tail(buf))

LimitValue == IF NIL_P(limit_option) THEN 0 ELSE NUM2LONG(limit_option)

\* C4: with a limit L >= 1 the output has at most L elements and is the first L
\* (or all) of what the ranked buffer yields without a limit; with limit 0 or
\* absent it is all of that.
C4_LimitIsPrefix ==
  (pc = "returned" /\ PositiveWorkers) =>
    IF LimitValue >= 1
      THEN /\ Len(results) <= LimitValue
           /\ results = Take(PositivePaths(matches), LimitValue)
      ELSE results = PositivePaths(matches)

C4_Witness ==
  /\ pc = "returned"
  /\ PositiveWorkers
  /\ LimitValue = 1
  /\ Len(PositivePaths(matches)) >= 2
  /\ matches[1].score = 0
  /\ Len(results) = 1

Count(seq, x) == Cardinality({ k \in 1..Len(seq) : seq[k] = x })
IsMatch(path) == ScoreOf(path) > 0
Matching == SelectSeq(paths, IsMatch)

\* C5: no candidate that scores 0 is in the output, whatever the sort option,
\* the comparator and the limit; without a limit every candidate that scores
\* above 0 is in it (as often as the path source lists it).
C5_ZeroScoresFiltered ==
  (pc = "returned" /\ PositiveWorkers) =>
    /\ \A k \in 1..Len(results) : IsMatch(results[k]) /\ Count(paths, results[k]) > 0
    /\ LimitValue = 0 => \A p \in PathPool : Count(results, p) = Count(Matching, p)

C5_Witness ==
  /\ pc = "returned"
  /\ thread_count >= 2
  /\ LimitValue = 0
  /\ Len(results) >= 1
  /\ \E k \in 1..path_count : ~IsMatch(paths[k])

\* byte-wise order of two strings: the first differing byte decides, and a
\* string that is a proper prefix of the other comes first
LexLess(a, b) ==
  \E k \in 1..(Min(Len(a), Len(b)) + 1) :
    /\ \A m \in 1..(k - 1) : a[m] = b[m]
    /\ \/ k <= Len(a) /\ k <= Len(b) /\ a[k] < b[k]
       \/ k = Len(a) + 1 /\ k <= Len(b)

LexLeq(a, b) == a = b \/ LexLess(a, b)

Arrangements(seq) ==
  { [k \in 1..Len(seq) |-> seq[p[k]]] : p \in Permutations(1..Len(seq)) }

\* the candidates seq in alphabetical order
AlphaRanked(seq) ==
  CHOOSE s \in Arrangements(seq) : \A k \in 1..Len(s) - 1 : LexLeq(s[k], s[k + 1])

Unlimited == LimitValue = 0

C7_ScoreMonotonic ==
  (pc = "returned" /\ PositiveWorkers /\ SortEnabled(sort_option) /\ ~AlphaOnly(abbrev)) =>
    \A k \in 1..Len(results) - 1 :
      /\ ScoreOf(results[k]) >= ScoreOf(results[k + 1])
      /\ ScoreOf(results[k]) = ScoreOf(results[k + 1]) => LexLeq(results[k], results[k + 1])

C7_Witness ==
  /\ pc = "returned"
  /\ thread_count >= 2
  /\ SortEnabled(sort_option)
  /\ ~AlphaOnly(abbrev)
  /\ Len(results) = 3
  /\ ScoreOf(results[1]) = ScoreOf(results[2])
  /\ results[1] = Take(results[2], Len(results[1]))
  /\ ScoreOf(results[2]) > ScoreOf(results[3])
  /\ LexLess(results[3], results[2])

\* C8: with the sort option false the output is the candidates that score
\* above 0 in the order the path source gave them (up to the limit), for any
\* worker count.
C8_UnsortedKeepsOrder ==
  (pc = "returned" /\ PositiveWorkers /\ sort_option = Qfalse) =>
    results = Take(Matching, Limit(limit_option, path_count))

C8_Witness ==
  /\ pc = "returned"
  /\ thread_count = 3
  /\ sort_option = Qfalse
  /\ Len(results) >= 2
  /\ Len(results) < path_count
  /\ LexLess(results[2], results[1])

\* C9: when the call returns its result, the score buffer, the thread-handle
\* array and the per-worker argument array have all been released.
C9_ReleasedOnReturn ==
  pc = "returned" => heap = {}

\* C10: when a failure after an allocation reaches the caller, every block the
\* call allocated has been released.
C10_ReleasedOnFailure ==
  pc = "raised" => heap = {}

\* C11: when the call exits, normally or by an error, every worker it spawned
\* has been joined: none is still running and none has finished unjoined.
C11_WorkersJoinedAtExit ==
  pc \in {"returned", "raised"} =>
    \A k \in Threads : tstate[k] \in {"none", "returned", "joined"}

\* C12: an argument error (a nil abbreviation for the call, a nil scanner for
\* the constructor) is raised before any work: no candidate is fetched, no
\* buffer allocated, no worker started, nothing returned, and a refused
\* constructor leaves the configuration unset.
C12_ArgErrorBeforeWork ==
  error = "ArgError" =>
    /\ pc = "raised"
    /\ heap = {}
    /\ paths = <<>> /\ path_count = 0
    /\ matches = <<>> /\ thread_args = <<>> /\ scored = <<>>
    /\ \A k \in Threads : tstate[k] = "none"
    /\ results = <<>>
    /\ (scanner = Qnil => always_show_dot_files = Qnil /\ never_show_dot_files = Qnil)

\* a nil abbreviation was refused by a matcher that holds candidates
C12_Witness ==
  /\ pc = "raised" /\ error = "ArgError"
  /\ scanner # Qnil /\ Len(scanner[2]) >= 2

\* C13: with T workers over N candidates, the worker of index k scores only
\* the slots i with i < N and i mod T = k: its loop counter stays on its
\* stripe, and a slot is only ever scored by the worker whose counter is on it.
C13_StripeOwnership ==
  /\ [](PositiveWorkers =>
          \A k \in Threads :
            tstate[k] \in {"running", "inline"} => tpos[k] % thread_count = k)
  /\ [][\A s \in (DOMAIN scored) \cap (DOMAIN scored') :
          scored'[s] > scored[s] =>
            \E k \in Threads :
              /\ tstate[k] \in {"running", "inline"}
              /\ tpos[k] = s - 1 /\ tpos'[k] # tpos[k]
              /\ s - 1 < path_count
              /\ PositiveWorkers => (s - 1) % thread_count = k]_vars

\* two workers have each scored a slot of their own stripe
C13_Witness ==
  /\ thread_count = 2 /\ path_count = 3
  /\ tstate[0] = "running" /\ tstate[1] = "inline"
  /\ matches[1].written /\ matches[2].written /\ ~matches[3].written

\* the call has passed line 174: the effective worker count is computed
CountComputed == "matches" \in heap \/ pc = "returned"

\* the worker count the caller asked for: 1 when the option is absent
RequestedThreads == IF threads_option = Qnil THEN 1 ELSE threads_option[2]

\* C14: below the small-input threshold the effective worker count is 1 whatever
\* was requested, no thread is ever created and every score is written by the
\* calling thread; at or above the threshold the effective count is the
\* requested count.
C14_ThresholdForcesOneWorker ==
  CountComputed =>
    /\ path_count < THREAD_THRESHOLD =>
          /\ thread_count = 1
          /\ \A k \in Threads : tstate[k] \notin {"running", "done", "joined"}
          /\ (\E s \in 1..Len(matches) : matches[s].written) =>
                tstate[0] \in {"inline", "returned"}
    /\ path_count >= THREAD_THRESHOLD => thread_count = RequestedThreads

\* a call asking for three workers over a below-threshold input has returned
C14_Witness ==
  /\ pc = "returned"
  /\ threads_option = Num(3)
  /\ path_count = THREAD_THRESHOLD - 1
  /\ tstate[0] = "returned"

\* C15: with T >= 1 workers only the stripes 0..T-2 run as threads; the stripe
\* T-1 runs on the calling thread once all the others have been started and
\* before any of them is joined; a call that gets to the Ranker has joined
\* exactly the T-1 threads it created.
C15_LastStripeInline ==
  PositiveWorkers =>
    /\ \A k \in Threads :
         /\ tstate[k] \in {"running", "done", "joined"} => k < thread_count - 1
         /\ tstate[k] \in {"inline", "returned"} => k = thread_count - 1
         /\ tstate[k] = "inline" =>
              \A j \in 0..(thread_count - 2) : tstate[j] \in {"running", "done"}
         /\ tstate[k] = "joined" => tstate[thread_count - 1] = "returned"
    /\ pc \in {"sort", "filter", "returned"} =>
         /\ { k \in Threads : tstate[k] = "joined" } = 0..(thread_count - 2)
         /\ tstate[thread_count - 1] = "returned"
         /\ Cardinality({ k \in Threads : tstate[k] # "none" }) = thread_count

\* three workers: the calling thread runs the last stripe while both threads
\* are started and unjoined
C15_Witness ==
  /\ thread_count = 3
  /\ pc = "inline" /\ tstate[2] = "inline"
  /\ tstate[0] = "done" /\ tstate[1] = "running"

\* C16: once creating or joining a worker has failed the call is in the error
\* state for good: it is never at the Ranker, has no result, and creates or
\* joins no further worker.
C16_WorkerFailureIsFatal ==
  /\ [](error = "SystemCallError" =>
          /\ pc = "raised"
          /\ results = <<>> /\ sort_option = Qnil /\ limit_option = Qnil)
  /\ [][error = "SystemCallError" =>
          /\ error' = "SystemCallError"
          /\ \A k \in Threads :
               /\ tstate'[k] = "running" => tstate[k] = "running"
               /\ tstate'[k] = "joined" => tstate[k] = "joined"]_vars

\* the join of the second worker failed after the first was joined
C16_Witness ==
  /\ pc = "raised" /\ error = "SystemCallError"
  /\ tstate[0] = "joined" /\ tstate[1] \in {"running", "done"}

\* C19: the Ranker never reads a slot no worker has written: for every value of
\* the threads option the call accepts, all N slots are written by the time the
\* sort and the filter pass read them.
C19_RankerReadsWrittenSlots ==
  pc \in {"sort", "filter"} => \A k \in 1..Len(matches) : matches[k].written

\* the abbreviation s case-folded when fold is set and without its spaces when
\* strip is set
RECURSIVE Normalized(_, _, _)
Normalized(s, fold, strip) ==
  IF s = <<>> THEN <<>>
  ELSE LET c == Head(s)
           rest == Normalized(Tail(s), fold, strip)
       IN  IF strip /\ c = 32 THEN rest
           ELSE <<IF fold /\ c \in 65..90 THEN c + 32 ELSE c>> \o rest

\* the normalized form of the abbreviation the caller passed to this call
Pattern == Normalized(RSTRING(abbrev_arg), ~case_sensitive, ignore_spaces = Qtrue)

Configuration == << scanner, always_show_dot_files, never_show_dot_files >>

\* the score buffer a single pass over the path source's sequence gives for
\* the arguments of the call in progress
FreshScores ==
  [k \in 1..Len(scanner[2]) |->
     [ written |-> TRUE,
       path |-> scanner[2][k],
       score |-> calculate_match(scanner[2][k], Pattern, case_sensitive,
                                 always_show_dot_files, never_show_dot_files) ]]

\* the results the configuration and the arguments of this call alone allow
FreshOutputs ==
  LET ranked == IF ~SortEnabled(sort_option) THEN { FreshScores }
                ELSE IF AlphaOnly(Pattern) THEN QsortResults(FreshScores, "cmp_alpha")
                ELSE QsortResults(FreshScores, "cmp_score")
  IN  { CollectFrom(b, 1, Limit(limit_option, Len(scanner[2]))) : b \in ranked }

\* C17: once the matcher is constructed no step of any call changes its
\* Configuration; the candidate sequence of a call stays the path source's
\* sequence, content and order, through the sort; and the result of a call,
\* the first or a later one, is the one its own arguments and the
\* configuration determine.
C17_CallsLeaveConfiguration ==
  /\ [][pc # "new" => Configuration' = Configuration]_vars
  /\ [](CountComputed => paths = scanner[2])
  /\ []((pc = "returned" /\ PositiveWorkers) => results \in FreshOutputs)

\* a later call has returned a result whose order differs from the path
\* source's
C17_Witness ==
  /\ recalled
  /\ pc = "returned"
  /\ SortEnabled(sort_option)
  /\ Len(results) = 3
  /\ results # scanner[2]
  /\ paths = scanner[2]

\* C18: under fair scheduling every call with a positive worker count ends,
\* with a result or with an error: the calling thread never waits forever on
\* a join, and the strided loop of every thread it created finishes.
C18_CallTerminates ==
  (pc = "alloc_threads" /\ PositiveWorkers) ~>
    /\ pc \in {"returned", "raised"}
    /\ \A k \in Threads : tstate[k] \notin {"running", "inline"}

\* a call of three workers has returned after waiting for both of its threads
C18_Witness ==
  /\ pc = "returned"
  /\ thread_count = 3 /\ path_count = 3
  /\ tstate[0] = "joined" /\ tstate[1] = "joined" /\ tstate[2] = "returned"

====
